---- MODULE Spec2Model ----
(***************************************************************************)
(* The iteration protocol of the notebooks part-1.ipynb and part-3.ipynb:  *)
(* the Squares iterators, the successive Cities classes with their         *)
(* CityIterator, and the traversal that a for loop, a comprehension,       *)
(* enumerate and sorted perform through the built-ins iter() and next().   *)
(*                                                                         *)
(* A state is one kernel session between two notebook cells:               *)
(*   heap    the objects alive in the session; an object's identity (what  *)
(*           id() reports) is its position in the sequence                 *)
(*   ret     the outcome of the last call a cell made: which built-in or   *)
(*           method (op), on which object (self; for cities[s] also the    *)
(*           position asked, arg), and whether it returned                 *)
(*           (kind = "return", val the value or the identity returned) or  *)
(*           raised (kind = "raise", val the exception's name)             *)
(*   stdout  the lines the last cell's methods printed                     *)
(*   loop    the for statement executing or just finished: pc, the object  *)
(*           it was given (target), the iterator it obtained (it), that    *)
(*           iterator's cursor when it was obtained (start, an             *)
(*           observation no guard reads) and the items handed to the body  *)
(*           so far (visited)                                              *)
(***************************************************************************)
EXTENDS Integers, Sequences, FiniteSets, TLC

VARIABLES heap, ret, stdout, loop

vars == <<heap, ret, stdout, loop>>

\* Bounds of the model.
MaxLen == 3
MaxObjs == 3
MaxCalls == 4
MaxRange == 1

\* The values a Cities instance may hold: an ordinary name, and a string that
\* reads like the name of the exception that ends an iteration.
CityNames == {"Paris", "StopIteration"}

\* All sequences over S of length at most n.
RECURSIVE SeqsUpTo(_, _)
SeqsUpTo(S, n) ==
    IF n = 0 THEN {<<>>}
    ELSE LET shorter == SeqsUpTo(S, n - 1)
         IN shorter \cup {Append(s, x) : s \in {t \in shorter : Len(t) = n - 1}, x \in S}

(***************************************************************************)
(* Outcomes of a call.                                                     *)
(***************************************************************************)
\* What ret records of the call op(self) that ended with res.
Called(op, self, res) ==
    [op |-> op, self |-> self, kind |-> res.kind, val |-> res.val]

Return(v) == [kind |-> "return", val |-> v]

Raise(e) == [kind |-> "raise", val |-> e]

Outcome(h, r, out) == [heap |-> h, res |-> r, out |-> out]

(***************************************************************************)
(* The classes of the two notebooks and the methods each defines.          *)
(* Squares3, Squares10, Squares20 and Squares are the successive           *)
(* definitions of class Squares in part-1 (the numbers are those of the    *)
(* defining cells), RandomNumbers the class of that name in part-1;        *)
(* Cities1 and Cities5 are the first two definitions of class Cities in    *)
(* part-3 (the iterator that holds its own list, and the class that only   *)
(* holds the list), Cities is the last definition of part-3, CitiesSeq the *)
(* same class without __iter__, the sequence type the text of part-3 says  *)
(* a for loop falls back on; "iterator" is the iterator iter() builds for  *)
(* it.                                                                     *)
(***************************************************************************)
Methods(cls) ==
    CASE cls = "Squares3"     -> {"next_"}
      [] cls = "Squares10"    -> {"next_", "__len__"}
      [] cls = "RandomNumbers" -> {"__len__", "__next__"}
      [] cls = "Squares20"    -> {"__next__", "__len__"}
      [] cls = "Squares"      -> {"__iter__", "__next__"}
      [] cls = "Cities1"      -> {"__iter__", "__next__"}
      [] cls = "Cities5"      -> {"__len__"}
      [] cls = "Cities"       -> {"__len__", "__getitem__", "__iter__"}
      [] cls = "CitiesSeq"    -> {"__len__", "__getitem__"}
      [] cls = "CityIterator" -> {"__iter__", "__next__"}
      [] cls = "iterator"     -> {"__iter__", "__next__"}

(***************************************************************************)
(* part-1: the first class Squares, with next_ and no length.              *)
(***************************************************************************)
Squares3__init__ == [cls |-> "Squares3", i |-> 0]

\* A faulty next_: the sequence ends after two values.
Squares3_next_Ends(h, self) ==
    IF h[self].i >= 2
    THEN Outcome(h, Raise("StopIteration"), <<>>)
    ELSE LET result == h[self].i * h[self].i
         IN Outcome([h EXCEPT ![self].i = @ + 1], Return(result), <<>>)

Squares3_next_(h, self) ==
    LET result == h[self].i * h[self].i
    IN Outcome([h EXCEPT ![self].i = @ + 1], Return(result), <<>>)

(***************************************************************************)
(* part-1: class Squares with next_ and __len__.                           *)
(***************************************************************************)
Squares10__init__(length) == [cls |-> "Squares10", length |-> length, i |-> 0]

\* A faulty next_: signalling the end also rewinds the counter.
Squares10_next_Rewinds(h, self) ==
    IF h[self].i >= h[self].length
    THEN Outcome([h EXCEPT ![self].i = 0], Raise("StopIteration"), <<>>)
    ELSE LET result == h[self].i * h[self].i
         IN Outcome([h EXCEPT ![self].i = @ + 1], Return(result), <<>>)

\* A faulty next_: the bounds check lets i = length through.
Squares10_next_OffByOne(h, self) ==
    IF h[self].i > h[self].length
    THEN Outcome(h, Raise("StopIteration"), <<>>)
    ELSE LET result == h[self].i * h[self].i
         IN Outcome([h EXCEPT ![self].i = @ + 1], Return(result), <<>>)

Squares10_next_(h, self) ==
    IF h[self].i >= h[self].length
    THEN Outcome(h, Raise("StopIteration"), <<>>)
    ELSE LET result == h[self].i * h[self].i
         IN Outcome([h EXCEPT ![self].i = @ + 1], Return(result), <<>>)

\* A faulty __len__: it reports the elements still to come.
Squares10__len__Remaining(h, self) ==
    Outcome(h, Return(h[self].length - h[self].i), <<>>)

Squares10__len__(h, self) == Outcome(h, Return(h[self].length), <<>>)

(***************************************************************************)
(* part-1: class Squares with __next__ and __len__, and no __iter__.       *)
(***************************************************************************)
Squares20__init__(length) == [cls |-> "Squares20", length |-> length, i |-> 0]

\* A faulty __next__: the bounds check lets i = length through.
Squares20__next__OffByOne(h, self) ==
    IF h[self].i > h[self].length
    THEN Outcome(h, Raise("StopIteration"), <<>>)
    ELSE LET result == h[self].i * h[self].i
         IN Outcome([h EXCEPT ![self].i = @ + 1], Return(result), <<>>)

Squares20__next__(h, self) ==
    IF h[self].i >= h[self].length
    THEN Outcome(h, Raise("StopIteration"), <<>>)
    ELSE LET result == h[self].i * h[self].i
         IN Outcome([h EXCEPT ![self].i = @ + 1], Return(result), <<>>)

Squares20__len__(h, self) == Outcome(h, Return(h[self].length), <<>>)

(***************************************************************************)
(* part-1: class RandomNumbers.                                            *)
(***************************************************************************)
RandomNumbers__init__(length, range_min, range_max) ==
    [cls |-> "RandomNumbers", length |-> length, range_min |-> range_min,
     range_max |-> range_max, num_requested |-> 0]

RandomNumbers__len__(h, self) == Outcome(h, Return(h[self].length), <<>>)

\* The values random.randint(a, b) may return: any integer from a to b.
randint(a, b) == a..b

\* A faulty __next__: the bounds check lets num_requested = length through.
RandomNumbers__next__OffByOne(h, self, draw) ==
    IF h[self].num_requested > h[self].length
    THEN Outcome(h, Raise("StopIteration"), <<>>)
    ELSE LET counted == [h EXCEPT ![self].num_requested = @ + 1]
         IN IF randint(h[self].range_min, h[self].range_max) = {}
            THEN Outcome(counted, Raise("ValueError"), <<>>)
            ELSE Outcome(counted, Return(draw), <<>>)

\* __next__, where draw is the value random.randint returns; with no value to
\* return (range_min > range_max) random.randint raises ValueError, after
\* num_requested has been counted up.
RandomNumbers__next__(h, self, draw) ==
    IF h[self].num_requested >= h[self].length
    THEN Outcome(h, Raise("StopIteration"), <<>>)
    ELSE LET counted == [h EXCEPT ![self].num_requested = @ + 1]
         IN IF randint(h[self].range_min, h[self].range_max) = {}
            THEN Outcome(counted, Raise("ValueError"), <<>>)
            ELSE Outcome(counted, Return(draw), <<>>)

(***************************************************************************)
(* part-1: the Squares iterator, in its tracing form.                      *)
(***************************************************************************)
Squares__init__(length) == [cls |-> "Squares", length |-> length, i |-> 0]

\* A faulty __iter__: it returns the object itself, rewound.
Squares__iter__Rewinds(h, self) ==
    Outcome([h EXCEPT ![self].i = 0], Return(self), <<"calling __iter__">>)

Squares__iter__(h, self) == Outcome(h, Return(self), <<"calling __iter__">>)

\* A faulty __next__: the bounds check lets i = length through.
Squares__next__OffByOne(h, self) ==
    IF h[self].i > h[self].length
    THEN Outcome(h, Raise("StopIteration"), <<"calling __next__">>)
    ELSE LET result == h[self].i * h[self].i
         IN Outcome([h EXCEPT ![self].i = @ + 1], Return(result),
                    <<"calling __next__">>)

\* A faulty __next__: the counter is moved before the square is taken.
Squares__next__SquaresAfter(h, self) ==
    IF h[self].i >= h[self].length
    THEN Outcome(h, Raise("StopIteration"), <<"calling __next__">>)
    ELSE LET result == (h[self].i + 1) * (h[self].i + 1)
         IN Outcome([h EXCEPT ![self].i = @ + 1], Return(result),
                    <<"calling __next__">>)

Squares__next__(h, self) ==
    IF h[self].i >= h[self].length
    THEN Outcome(h, Raise("StopIteration"), <<"calling __next__">>)
    ELSE LET result == h[self].i * h[self].i
         IN Outcome([h EXCEPT ![self].i = @ + 1], Return(result),
                    <<"calling __next__">>)

(***************************************************************************)
(* part-3: the first class Cities, an iterator over the list it holds.     *)
(***************************************************************************)
Cities1__init__(data) == [cls |-> "Cities1", _cities |-> data, _index |-> 0]

\* A faulty __iter__: it returns the object itself, set back to the start.
Cities1__iter__Rewinds(h, self) ==
    Outcome([h EXCEPT ![self]._index = 0], Return(self), <<>>)

Cities1__iter__(h, self) == Outcome(h, Return(self), <<>>)

\* A faulty __next__: the cursor moves on by two.
Cities1__next__Skips(h, self) ==
    IF h[self]._index >= Len(h[self]._cities)
    THEN Outcome(h, Raise("StopIteration"), <<>>)
    ELSE LET item == h[self]._cities[h[self]._index + 1]
         IN Outcome([h EXCEPT ![self]._index = @ + 2], Return(item), <<>>)

\* A faulty __next__: the last item is never given.
Cities1__next__StopsEarly(h, self) ==
    IF h[self]._index >= Len(h[self]._cities) - 1
    THEN Outcome(h, Raise("StopIteration"), <<>>)
    ELSE LET item == h[self]._cities[h[self]._index + 1]
         IN Outcome([h EXCEPT ![self]._index = @ + 1], Return(item), <<>>)

Cities1__next__(h, self) ==
    IF h[self]._index >= Len(h[self]._cities)
    THEN Outcome(h, Raise("StopIteration"), <<>>)
    ELSE LET item == h[self]._cities[h[self]._index + 1]
         IN Outcome([h EXCEPT ![self]._index = @ + 1], Return(item), <<>>)

(***************************************************************************)
(* part-3: class Cities with __len__, __getitem__ and __iter__, and its    *)
(* nested class CityIterator.                                              *)
(***************************************************************************)
Cities__init__(cls, data) == [cls |-> cls, _cities |-> data]

Cities__len__(h, self) == Outcome(h, Return(Len(h[self]._cities)), <<>>)

\* A faulty list[s]: every negative s is rejected.
ListGetItemNoNegative(list, s) ==
    IF 0 <= s /\ s < Len(list) THEN Return(list[s + 1])
    ELSE Raise("IndexError")

\* list[s] for an integer s: a negative s counts from the end.
ListGetItem(list, s) ==
    IF 0 <= s /\ s < Len(list) THEN Return(list[s + 1])
    ELSE IF -Len(list) <= s /\ s < 0 THEN Return(list[Len(list) + s + 1])
    ELSE Raise("IndexError")

\* A faulty __getitem__: the position is counted from where the furthest
\* iterator of the instance stands.
Cities__getitem__FromCursor(h, self, s) ==
    LET its == {o \in DOMAIN h : h[o].cls = "CityIterator"}
        far == IF its = {} THEN 0
               ELSE CHOOSE n \in {h[o]._index : o \in its} :
                        \A o \in its : h[o]._index <= n
    IN Outcome(h, ListGetItem(h[self]._cities, s + far), <<"getting item...">>)

Cities__getitem__(h, self, s) ==
    Outcome(h, ListGetItem(h[self]._cities, s), <<"getting item...">>)

CityIterator__init__(city_obj) ==
    [cls |-> "CityIterator", _city_obj |-> city_obj, _index |-> 0]

\* A faulty __iter__: the cursor is remembered across iterators, so a new
\* iterator starts where the furthest earlier one stands.
Cities__iter__Resumes(h, self) ==
    LET olds == {o \in DOMAIN h : h[o].cls = "CityIterator"}
        far == IF olds = {} THEN 0
               ELSE CHOOSE n \in {h[o]._index : o \in olds} :
                        \A o \in olds : h[o]._index <= n
    IN Outcome(Append(h, [CityIterator__init__(self) EXCEPT !._index = far]),
               Return(Len(h) + 1),
               <<"Calling Cities instance __iter__",
                 "Calling CityIterator __init__">>)

\* A faulty __iter__: the iterator made by the first call is kept and handed
\* out again by every later call.
Cities__iter__Cached(h, self) ==
    IF \E o \in DOMAIN h : h[o].cls = "CityIterator"
    THEN Outcome(h, Return(CHOOSE o \in DOMAIN h : h[o].cls = "CityIterator"),
                 <<"Calling Cities instance __iter__">>)
    ELSE Outcome(Append(h, CityIterator__init__(self)), Return(Len(h) + 1),
                 <<"Calling Cities instance __iter__",
                   "Calling CityIterator __init__">>)

Cities__iter__(h, self) ==
    Outcome(Append(h, CityIterator__init__(self)), Return(Len(h) + 1),
            <<"Calling Cities instance __iter__", "Calling CityIterator __init__">>)

\* A faulty __iter__: it returns the iterator itself, rewound to the start.
CityIterator__iter__Rewinds(h, self) ==
    Outcome([h EXCEPT ![self]._index = 0], Return(self),
            <<"Calling CitiyIterator instance __iter__">>)

CityIterator__iter__(h, self) ==
    Outcome(h, Return(self), <<"Calling CitiyIterator instance __iter__">>)

\* A faulty __next__: the cursor is kept in one place for all the iterators
\* of a Cities instance, so an advance moves every one of them.
CityIterator__next__SharedCursor(h, self) ==
    IF h[self]._index >= Cities__len__(h, h[self]._city_obj).res.val
    THEN Outcome(h, Raise("StopIteration"), <<"Calling __next__">>)
    ELSE LET item == h[h[self]._city_obj]._cities[h[self]._index + 1]
             moved == [o \in DOMAIN h |->
                          IF h[o].cls = "CityIterator"
                          THEN [h[o] EXCEPT !._index = h[self]._index + 1]
                          ELSE h[o]]
         IN Outcome(moved, Return(item), <<"Calling __next__">>)

\* A faulty __next__: the bounds check is off by one and stops before the
\* last element.
CityIterator__next__StopsEarly(h, self) ==
    IF h[self]._index >= Cities__len__(h, h[self]._city_obj).res.val - 1
    THEN Outcome(h, Raise("StopIteration"), <<"Calling __next__">>)
    ELSE LET item == h[h[self]._city_obj]._cities[h[self]._index + 1]
         IN Outcome([h EXCEPT ![self]._index = @ + 1], Return(item),
                    <<"Calling __next__">>)

\* A faulty __next__: the end is reported by returning the string
\* "StopIteration" as if it were an item, instead of raising.
CityIterator__next__ReturnsSentinel(h, self) ==
    IF h[self]._index >= Cities__len__(h, h[self]._city_obj).res.val
    THEN Outcome(h, Return("StopIteration"), <<"Calling __next__">>)
    ELSE LET item == h[h[self]._city_obj]._cities[h[self]._index + 1]
         IN Outcome([h EXCEPT ![self]._index = @ + 1], Return(item),
                    <<"Calling __next__">>)

\* A faulty __next__: it takes the items off the front of the list of the
\* Cities instance instead of reading them by position.
CityIterator__next__Consumes(h, self) ==
    IF 0 >= Cities__len__(h, h[self]._city_obj).res.val
    THEN Outcome(h, Raise("StopIteration"), <<"Calling __next__">>)
    ELSE LET item == h[h[self]._city_obj]._cities[1]
         IN Outcome([h EXCEPT ![h[self]._city_obj]._cities = Tail(@)],
                    Return(item), <<"Calling __next__">>)

\* A faulty __next__: when one iterator reaches the end, every iterator of the
\* Cities instance is marked as used up.
CityIterator__next__ExhaustsAll(h, self) ==
    IF h[self]._index >= Cities__len__(h, h[self]._city_obj).res.val
    THEN Outcome([o \in DOMAIN h |->
                     IF h[o].cls = "CityIterator"
                     THEN [h[o] EXCEPT !._index = h[self]._index]
                     ELSE h[o]],
                 Raise("StopIteration"), <<"Calling __next__">>)
    ELSE LET item == h[h[self]._city_obj]._cities[h[self]._index + 1]
         IN Outcome([h EXCEPT ![self]._index = @ + 1], Return(item),
                    <<"Calling __next__">>)

\* A faulty __next__: signalling the end also rewinds the cursor.
CityIterator__next__Rewinds(h, self) ==
    IF h[self]._index >= Cities__len__(h, h[self]._city_obj).res.val
    THEN Outcome([h EXCEPT ![self]._index = 0], Raise("StopIteration"),
                 <<"Calling __next__">>)
    ELSE LET item == h[h[self]._city_obj]._cities[h[self]._index + 1]
         IN Outcome([h EXCEPT ![self]._index = @ + 1], Return(item),
                    <<"Calling __next__">>)

\* A faulty __next__: the items are taken from the far end of the list.
CityIterator__next__Reversed(h, self) ==
    IF h[self]._index >= Cities__len__(h, h[self]._city_obj).res.val
    THEN Outcome(h, Raise("StopIteration"), <<"Calling __next__">>)
    ELSE LET n == Cities__len__(h, h[self]._city_obj).res.val
             item == h[h[self]._city_obj]._cities[n - h[self]._index]
         IN Outcome([h EXCEPT ![self]._index = @ + 1], Return(item),
                    <<"Calling __next__">>)

CityIterator__next__(h, self) ==
    IF h[self]._index >= Cities__len__(h, h[self]._city_obj).res.val
    THEN Outcome(h, Raise("StopIteration"), <<"Calling __next__">>)
    ELSE LET item == h[h[self]._city_obj]._cities[h[self]._index + 1]
         IN Outcome([h EXCEPT ![self]._index = @ + 1], Return(item),
                    <<"Calling __next__">>)

(***************************************************************************)
(* The iterator that iter() builds over an object that has __getitem__ and *)
(* no __iter__: it asks for positions 0, 1, ... and takes IndexError as    *)
(* the end.                                                                *)
(***************************************************************************)
iterator__init__(seq) == [cls |-> "iterator", it_seq |-> seq, it_index |-> 0]

iterator__iter__(h, self) == Outcome(h, Return(self), <<>>)

\* A faulty __next__ of the fallback iterator: the IndexError of __getitem__
\* is let through instead of being turned into the end of the iteration.
iterator__next__PropagatesIndexError(h, self) ==
    LET got == Cities__getitem__(h, h[self].it_seq, h[self].it_index)
    IN IF got.res.kind = "raise"
       THEN Outcome(h, got.res, got.out)
       ELSE Outcome([h EXCEPT ![self].it_index = @ + 1], got.res, got.out)

iterator__next__(h, self) ==
    LET got == Cities__getitem__(h, h[self].it_seq, h[self].it_index)
    IN IF got.res.kind = "raise"
       THEN Outcome(h, Raise("StopIteration"), got.out)
       ELSE Outcome([h EXCEPT ![self].it_index = @ + 1], got.res, got.out)

(***************************************************************************)
(* The built-ins len(), next() and iter().                                 *)
(***************************************************************************)
len(h, o) ==
    CASE h[o].cls = "Squares10" -> Squares10__len__(h, o)
      [] h[o].cls = "RandomNumbers" -> RandomNumbers__len__(h, o)
      [] h[o].cls = "Squares20" -> Squares20__len__(h, o)
      [] h[o].cls \in {"Cities5", "Cities", "CitiesSeq"} -> Cities__len__(h, o)

next(h, o) ==
    CASE h[o].cls = "Squares20"    -> Squares20__next__(h, o)
      [] h[o].cls = "Squares"      -> Squares__next__(h, o)
      [] h[o].cls = "Cities1"      -> Cities1__next__(h, o)
      [] h[o].cls = "CityIterator" -> CityIterator__next__(h, o)
      [] h[o].cls = "iterator"     -> iterator__next__(h, o)

\* A faulty iter(): __getitem__ is tried before __iter__.
iterPrefersGetItem(h, o) ==
    IF "__getitem__" \in Methods(h[o].cls)
    THEN Outcome(Append(h, iterator__init__(o)), Return(Len(h) + 1), <<>>)
    ELSE IF "__iter__" \in Methods(h[o].cls)
    THEN CASE h[o].cls = "Squares"      -> Squares__iter__(h, o)
           [] h[o].cls = "Cities1"      -> Cities1__iter__(h, o)
           [] h[o].cls = "Cities"       -> Cities__iter__(h, o)
           [] h[o].cls = "CityIterator" -> CityIterator__iter__(h, o)
           [] h[o].cls = "iterator"     -> iterator__iter__(h, o)
    ELSE Outcome(h, Raise("TypeError"), <<>>)

\* A faulty iter(): an object that has __next__ is taken for an iterator even
\* though it has no __iter__.
iterAcceptsNext(h, o) ==
    IF "__iter__" \in Methods(h[o].cls)
    THEN CASE h[o].cls = "Squares"      -> Squares__iter__(h, o)
           [] h[o].cls = "Cities1"      -> Cities1__iter__(h, o)
           [] h[o].cls = "Cities"       -> Cities__iter__(h, o)
           [] h[o].cls = "CityIterator" -> CityIterator__iter__(h, o)
           [] h[o].cls = "iterator"     -> iterator__iter__(h, o)
    ELSE IF "__getitem__" \in Methods(h[o].cls)
    THEN Outcome(Append(h, iterator__init__(o)), Return(Len(h) + 1), <<>>)
    ELSE IF "__next__" \in Methods(h[o].cls)
    THEN Outcome(h, Return(o), <<>>)
    ELSE Outcome(h, Raise("TypeError"), <<>>)

\* iter(o): __iter__ when the class has one, else the __getitem__ fallback,
\* else "object is not iterable".
iter(h, o) ==
    IF "__iter__" \in Methods(h[o].cls)
    THEN CASE h[o].cls = "Squares"      -> Squares__iter__(h, o)
           [] h[o].cls = "Cities1"      -> Cities1__iter__(h, o)
           [] h[o].cls = "Cities"       -> Cities__iter__(h, o)
           [] h[o].cls = "CityIterator" -> CityIterator__iter__(h, o)
           [] h[o].cls = "iterator"     -> iterator__iter__(h, o)
    ELSE IF "__getitem__" \in Methods(h[o].cls)
    THEN Outcome(Append(h, iterator__init__(o)), Return(Len(h) + 1), <<>>)
    ELSE Outcome(h, Raise("TypeError"), <<>>)

(***************************************************************************)
(* The session.                                                            *)
(***************************************************************************)
Idle == [pc |-> "idle", target |-> 0, it |-> 0, start |-> 0, visited |-> <<>>]

\* The progress marker of an iterator object.
Cursor(h, o) ==
    CASE h[o].cls \in {"Squares3", "Squares10", "Squares20", "Squares"} -> h[o].i
      [] h[o].cls = "RandomNumbers" -> h[o].num_requested
      [] h[o].cls \in {"Cities1", "CityIterator"} -> h[o]._index
      [] h[o].cls = "iterator"     -> h[o].it_index

\* The first object of a session: sq = Squares(length) or
\* numbers = RandomNumbers(length, ...) in part-1, cities = Cities() in
\* part-3.  A length is a count, 0 or more; the two ends of the range of a
\* RandomNumbers are any two integers, in either order.  The list a Cities
\* instance holds is any list of names up to MaxLen long: no method depends
\* on the names written in __init__, only on the list's length and its items
\* by position.
FirstObjects ==
    {Squares3__init__}
    \cup {RandomNumbers__init__(n, a, b) :
              n \in 0..MaxLen, a \in 0..MaxRange, b \in 0..MaxRange}
    \cup {Squares10__init__(n) : n \in 0..MaxLen}
    \cup {Squares20__init__(n) : n \in 0..MaxLen}
    \cup {Squares__init__(n) : n \in 0..MaxLen}
    \cup {Cities1__init__(d) : d \in SeqsUpTo(CityNames, MaxLen)}
    \cup {Cities__init__(c, d) : c \in {"Cities5", "Cities", "CitiesSeq"},
                                 d \in SeqsUpTo(CityNames, MaxLen)}

Init ==
    /\ heap \in {<<o>> : o \in FirstObjects}
    /\ ret = Called("init", 1, Return(1))
    /\ stdout = <<>>
    /\ loop = Idle

\* The outcome r of the call op(self) ends a cell that is no for statement.
Cell(op, self, r) ==
    /\ loop.pc # "next"
    /\ Len(r.heap) <= MaxObjs
    /\ heap' = r.heap
    /\ ret' = Called(op, self, r.res)
    /\ stdout' = r.out
    /\ loop' = Idle

\* len(o)
CallLen(o) ==
    /\ "__len__" \in Methods(heap[o].cls)
    /\ Cell("len", o, len(heap, o))

\* sq.next_(); on the Squares without a length the session makes at most
\* MaxCalls calls.
CallNext_(o) ==
    /\ "next_" \in Methods(heap[o].cls)
    /\ IF heap[o].cls = "Squares3"
       THEN /\ heap[o].i < MaxCalls
            /\ Cell("next_", o, Squares3_next_(heap, o))
       ELSE Cell("next_", o, Squares10_next_(heap, o))

\* next(o)
CallNext(o) ==
    /\ "__next__" \in Methods(heap[o].cls)
    /\ heap[o].cls # "RandomNumbers"
    /\ Cell("next", o, next(heap, o))

\* next(numbers), random.randint returning any of the values it may (when
\* it has none to return, __next__ does not use the draw).
CallNextRandom(o) ==
    /\ heap[o].cls = "RandomNumbers"
    /\ LET values == randint(heap[o].range_min, heap[o].range_max)
       IN \E draw \in (IF values = {} THEN {0} ELSE values) :
             Cell("next", o, RandomNumbers__next__(heap, o, draw))

\* iter(o)
CallIter(o) == Cell("iter", o, iter(heap, o))

\* cities[s]; ret also records the position asked.
CallGetItem(o, s) ==
    LET r == Cities__getitem__(heap, o, s)
    IN /\ "__getitem__" \in Methods(heap[o].cls)
       /\ loop.pc # "next"
       /\ heap' = r.heap
       /\ ret' = [op |-> "getitem", self |-> o, arg |-> s,
                  kind |-> r.res.kind, val |-> r.res.val]
       /\ stdout' = r.out
       /\ loop' = Idle

\* iter_1 = CityIterator(cities), on an instance of the Cities that only
\* holds the list.
NewCityIterator(o) ==
    /\ heap[o].cls = "Cities5"
    /\ Cell("CityIterator", o,
            Outcome(Append(heap, CityIterator__init__(o)), Return(Len(heap) + 1),
                    <<"Calling CityIterator __init__">>))

\* for item in o: the statement asks iter(o) for an iterator.
ForBegin(o) ==
    LET r == iter(heap, o)
    IN /\ loop.pc # "next"
       /\ Len(r.heap) <= MaxObjs
       /\ heap' = r.heap
       /\ ret' = [op |-> "iter", self |-> o, kind |-> r.res.kind, val |-> r.res.val]
       /\ stdout' = r.out
       /\ loop' = IF r.res.kind = "raise"
                  THEN [Idle EXCEPT !.pc = "error", !.target = o]
                  ELSE [pc |-> "next", target |-> o, it |-> r.res.val,
                        start |-> Cursor(r.heap, r.res.val), visited |-> <<>>]

\* A faulty turn of the for statement: it asks iter() for the iterator again
\* before every next().
ForNextAsksIterAgain ==
    LET again == iter(heap, loop.it)
        r == next(again.heap, again.res.val)
    IN /\ loop.pc = "next"
       /\ heap' = r.heap
       /\ ret' = [op |-> "next", self |-> loop.it, kind |-> r.res.kind,
                  val |-> r.res.val]
       /\ stdout' = stdout \o again.out \o r.out
       /\ loop' = IF r.res.kind = "return"
                  THEN [loop EXCEPT !.visited = Append(@, r.res.val)]
                  ELSE IF r.res.val = "StopIteration"
                  THEN [loop EXCEPT !.pc = "done"]
                  ELSE [loop EXCEPT !.pc = "error"]

\* A faulty turn of the for statement: after StopIteration it calls next()
\* once more before it ends.
ForNextAdvancesAgain ==
    LET r == next(heap, loop.it)
        again == IF r.res.kind = "raise" THEN next(r.heap, loop.it) ELSE r
    IN /\ loop.pc = "next"
       /\ heap' = again.heap
       /\ ret' = [op |-> "next", self |-> loop.it, kind |-> again.res.kind,
                  val |-> again.res.val]
       /\ stdout' = IF r.res.kind = "raise" THEN stdout \o r.out \o again.out
                    ELSE stdout \o r.out
       /\ loop' = IF again.res.kind = "return"
                  THEN [loop EXCEPT !.visited = Append(@, again.res.val)]
                  ELSE IF again.res.val = "StopIteration"
                  THEN [loop EXCEPT !.pc = "done"]
                  ELSE [loop EXCEPT !.pc = "error"]

\* A faulty turn of the for statement: StopIteration is not caught, it leaves
\* the statement as any other exception does.
ForNextPropagatesStop ==
    LET r == next(heap, loop.it)
    IN /\ loop.pc = "next"
       /\ heap' = r.heap
       /\ stdout' = stdout \o r.out
       /\ loop' = IF r.res.kind = "return"
                  THEN [loop EXCEPT !.visited = Append(@, r.res.val)]
                  ELSE [loop EXCEPT !.pc = "error"]
       /\ ret' = [op |-> "next", self |-> loop.it, kind |-> r.res.kind,
                  val |-> r.res.val]

\* One turn of the for statement: next() on its iterator; an item goes to the
\* body, StopIteration ends the statement, any other exception leaves it.
ForNext ==
    LET r == next(heap, loop.it)
    IN /\ loop.pc = "next"
       /\ heap' = r.heap
       /\ stdout' = stdout \o r.out
       /\ loop' = IF r.res.kind = "return"
                  THEN [loop EXCEPT !.visited = Append(@, r.res.val)]
                  ELSE IF r.res.val = "StopIteration"
                  THEN [loop EXCEPT !.pc = "done"]
                  ELSE [loop EXCEPT !.pc = "error"]
       /\ ret' = [op |-> "next", self |-> loop.it, kind |-> r.res.kind,
                  val |-> r.res.val]

Next ==
    \/ \E o \in DOMAIN heap : CallLen(o)
    \/ \E o \in DOMAIN heap : CallNext_(o)
    \/ \E o \in DOMAIN heap : CallNext(o)
    \/ \E o \in DOMAIN heap : CallNextRandom(o)
    \/ \E o \in DOMAIN heap : CallIter(o)
    \/ \E o \in DOMAIN heap, s \in -(MaxLen + 1)..MaxLen : CallGetItem(o, s)
    \/ \E o \in DOMAIN heap : NewCityIterator(o)
    \/ \E o \in DOMAIN heap : ForBegin(o)
    \/ ForNext

Spec == Init /\ [][Next]_vars

\* The kernel runs a statement it has started to its end: a turn of the loop
\* that can be taken is taken.  Whether and when another cell is run is up to
\* the user.
FairSpec == Spec /\ WF_loop(ForNext)

(***************************************************************************)
(* Vocabulary of the properties.                                           *)
(***************************************************************************)
\* The classes whose instances are Producers over a fixed, finite sequence of
\* elements.
ProducerClasses ==
    {"Squares10", "Squares20", "Squares", "Cities1", "CityIterator"}

IsProducer(h, o) == h[o].cls \in ProducerClasses

\* The number of elements a Producer runs over.
Length(h, o) ==
    IF h[o].cls = "CityIterator" THEN Len(h[h[o]._city_obj]._cities)
    ELSE IF h[o].cls = "Cities1" THEN Len(h[o]._cities)
    ELSE h[o].length

\* The elements a Producer runs over, in traversal order.
Elements(h, o) ==
    IF h[o].cls = "CityIterator" THEN h[h[o]._city_obj]._cities
    ELSE IF h[o].cls = "Cities1" THEN h[o]._cities
    ELSE [k \in 1..h[o].length |-> (k - 1) * (k - 1)]

Exhausted(h, o) == Cursor(h, o) >= Length(h, o)

\* The last call was advance() on p.
AdvanceOn(r, p) == r.op \in {"next", "next_"} /\ r.self = p

SignalsExhausted(r) == r.kind = "raise" /\ r.val = "StopIteration"

\* The lines of the trace that report a call of __next__, and of __iter__.
NextLines == {"calling __next__", "Calling __next__"}

\* The Producer classes whose __next__ reports its call in the trace.
TracingClasses == {"Squares", "CityIterator"}

IterLines == {"calling __iter__", "Calling Cities instance __iter__",
              "Calling CitiyIterator instance __iter__"}

Count(out, lines) == Cardinality({k \in DOMAIN out : out[k] \in lines})

(***************************************************************************)
(* Properties.                                                             *)
(***************************************************************************)

\* C1: a Producer obtained at the start position (by Cities.__iter__, or a
\* new Squares) and advanced k times has returned the first k backing
\* elements in index order; after the n elements of a Container of length n
\* the (n+1)-th advance, and no earlier one, signals StopIteration.
C1_FullTraversal ==
    (loop.pc \in {"next", "done"} /\ IsProducer(heap, loop.it) /\ loop.start = 0) =>
        /\ loop.visited = SubSeq(Elements(heap, loop.it), 1, Cursor(heap, loop.it))
        /\ heap[loop.it].cls \in TracingClasses =>
             Count(stdout, NextLines)
               = Len(loop.visited) + (IF loop.pc = "done" THEN 1 ELSE 0)
        /\ loop.pc = "done" =>
             /\ loop.visited = Elements(heap, loop.it)
             /\ Len(loop.visited) = Length(heap, loop.it)
             /\ AdvanceOn(ret, loop.it)
             /\ SignalsExhausted(ret)

\* A finished traversal of a Cities instance that holds two different names.
C1_Witness ==
    /\ loop.pc = "done"
    /\ heap[loop.target].cls = "Cities"
    /\ loop.start = 0
    /\ Len(loop.visited) >= 2
    /\ loop.visited[1] # loop.visited[2]
    /\ SignalsExhausted(ret)

\* C2: exhaustion is permanent.  An advance signals StopIteration only on a
\* Producer whose cursor has reached its length; no step takes such a
\* Producer out of that state or changes it at all; and every advance on it,
\* however many calls later, signals StopIteration again: it returns no value,
\* raises nothing else and does not restart.
C2_ExhaustionIsPermanent ==
    /\ [](\A p \in DOMAIN heap :
            (IsProducer(heap, p) /\ AdvanceOn(ret, p) /\ SignalsExhausted(ret))
                => Exhausted(heap, p))
    /\ [][\A p \in DOMAIN heap :
            (IsProducer(heap, p) /\ Exhausted(heap, p)) =>
                /\ heap'[p] = heap[p]
                /\ AdvanceOn(ret', p) => SignalsExhausted(ret')]_vars

\* sq.next_() on a Squares of two or more elements that is used up.
C2_Witness ==
    /\ heap[1].cls = "Squares10"
    /\ heap[1].length >= 2
    /\ heap[1].i = heap[1].length
    /\ loop.pc = "idle"
    /\ AdvanceOn(ret, 1)
    /\ SignalsExhausted(ret)

\* C3: independence.  An advance on a Producer p changes no other Producer
\* q of the same Container: q's cursor is what it was, and the result q's
\* next advance would give is the same as before p's advance, whether p
\* returned an element or was already exhausted.
C3_Independence ==
    [][\A p, q \in DOMAIN heap :
          (p # q /\ IsProducer(heap, p) /\ IsProducer(heap, q) /\ AdvanceOn(ret', p)) =>
              /\ heap'[q] = heap[q]
              /\ next(heap', q).res = next(heap, q).res]_vars

\* Two iterators of one Cities instance: the first has just returned its
\* second or a later element, the second is still at the start.
C3_Witness ==
    /\ Len(heap) = 3
    /\ heap[2].cls = "CityIterator"
    /\ heap[3].cls = "CityIterator"
    /\ heap[2]._index >= 2
    /\ heap[3]._index = 0
    /\ AdvanceOn(ret, 2)
    /\ ret.kind = "return"

\* C4: every call of Cities.__iter__ returns a new CityIterator: an object
\* that did not exist before the call (so neither the Cities instance nor an
\* iterator returned earlier), bound to that Cities instance, with its cursor
\* at 0; the objects that existed are left as they were, however far the
\* earlier iterators have advanced.
C4_FreshProducer ==
    [][\A c \in DOMAIN heap :
          (heap[c].cls = "Cities" /\ ret'.op = "iter" /\ ret'.self = c) =>
              /\ ret'.kind = "return"
              /\ ret'.val \notin DOMAIN heap
              /\ ret'.val \in DOMAIN heap'
              /\ heap'[ret'.val].cls = "CityIterator"
              /\ heap'[ret'.val]._city_obj = c
              /\ heap'[ret'.val]._index = 0
              /\ \A o \in DOMAIN heap : heap'[o] = heap[o]]_vars

\* iter(cities) has just returned a second iterator while the first one has
\* advanced twice or more.
C4_Witness ==
    /\ heap[1].cls = "Cities"
    /\ ret.op = "iter"
    /\ ret.self = 1
    /\ ret.val = 3
    /\ loop.pc = "idle"
    /\ heap[2]._index >= 2
    /\ heap[3]._index = 0

\* C5: every traversal of a Cities instance starts over.  It calls
\* Cities.__iter__ once more, runs on the CityIterator that call made, with
\* its cursor at 0, is handed the backing sequence in order and ends with all
\* of it, whatever the traversals and advances that came before.
C5_RestartableTraversal ==
    (loop.pc # "idle" /\ heap[loop.target].cls = "Cities") =>
        /\ loop.pc # "error"
        /\ Count(stdout, {"Calling Cities instance __iter__"}) = 1
        /\ heap[loop.it].cls = "CityIterator"
        /\ loop.start = 0
        /\ Len(loop.visited) <= Len(heap[loop.target]._cities)
        /\ loop.visited = SubSeq(heap[loop.target]._cities, 1, Len(loop.visited))
        /\ loop.pc = "done" => loop.visited = heap[loop.target]._cities

\* The second traversal of a Cities instance has ended, after a first one
\* that used up its own iterator.
C5_Witness ==
    /\ loop.pc = "done"
    /\ heap[loop.target].cls = "Cities"
    /\ loop.it = 3
    /\ heap[2].cls = "CityIterator"
    /\ Exhausted(heap, 2)
    /\ Len(loop.visited) >= 2
    /\ loop.visited[1] # loop.visited[2]

\* C6: __iter__ of a Producer (Squares, CityIterator) returns the Producer
\* itself and changes nothing: no object is created and no cursor moves,
\* whatever the cursor's value.
C6_ProducerSelfIdentity ==
    [][\A p \in DOMAIN heap :
          (heap[p].cls \in {"Squares", "CityIterator"}
             /\ ret'.op = "iter" /\ ret'.self = p) =>
              /\ ret'.kind = "return"
              /\ ret'.val = p
              /\ heap' = heap]_vars

\* iter(sq) on a Squares that has advanced and is not used up.
C6_Witness ==
    /\ heap[1].cls = "Squares"
    /\ heap[1].i >= 1
    /\ heap[1].i < heap[1].length
    /\ loop.pc = "idle"
    /\ ret.op = "iter"
    /\ ret.self = 1
    /\ ret.val = 1

\* C7: a traversal given a Producer that is already exhausted runs on that
\* Producer and hands no item to the body; it ends at its first advance.
C7_ExhaustedTraversalIsEmpty ==
    (loop.pc \in {"next", "done"}
       /\ IsProducer(heap, loop.target)
       /\ loop.start >= Length(heap, loop.target)) =>
        /\ loop.it = loop.target
        /\ loop.visited = <<>>
        /\ loop.pc = "done" =>
             /\ SignalsExhausted(ret)
             /\ heap[loop.it].cls \in TracingClasses =>
                  Count(stdout, NextLines) = 1

\* for item in sq has ended on a used-up Squares of two or more elements.
C7_Witness ==
    /\ loop.pc = "done"
    /\ loop.target = 1
    /\ heap[1].cls = "Squares"
    /\ heap[1].length >= 2
    /\ loop.start = heap[1].length
    /\ loop.visited = <<>>

\* The number of elements a Container holds.
Size(h, o) ==
    IF h[o].cls \in {"Cities1", "Cities5", "Cities", "CitiesSeq"}
    THEN Len(h[o]._cities)
    ELSE h[o].length

\* C8: for a Container of no elements len() returns 0, and an advance on a
\* Producer over it signals StopIteration, the first one included: the
\* cursor is still 0.
C8_EmptyContainer ==
    /\ (ret.op = "len" /\ Size(heap, ret.self) = 0) =>
           (ret.kind = "return" /\ ret.val = 0)
    /\ \A p \in DOMAIN heap :
           (IsProducer(heap, p) /\ Length(heap, p) = 0 /\ AdvanceOn(ret, p)) =>
               (SignalsExhausted(ret) /\ Cursor(heap, p) = 0)

\* next() on the iterator of an empty Cities instance.
C8_Witness ==
    /\ heap[1].cls = "Cities"
    /\ heap[1]._cities = <<>>
    /\ Len(heap) >= 2
    /\ heap[2].cls = "CityIterator"
    /\ loop.pc = "idle"
    /\ AdvanceOn(ret, 2)
    /\ SignalsExhausted(ret)

\* The line __iter__ of a class prints.
IterLine(cls) ==
    CASE cls = "Squares"      -> "calling __iter__"
      [] cls = "Cities"       -> "Calling Cities instance __iter__"
      [] cls = "CityIterator" -> "Calling CitiyIterator instance __iter__"

\* C9: in the trace of a traversal the __iter__ of the object given is called
\* exactly once, as the first call, before any __next__; no other __iter__ is
\* called, also when the object given is itself a Producer.
C9_IterOnceBeforeNext ==
    (loop.pc \in {"next", "done"}
       /\ heap[loop.target].cls \in {"Squares", "Cities", "CityIterator"}) =>
        /\ stdout[1] = IterLine(heap[loop.target].cls)
        /\ Count(stdout, IterLines) = 1
        /\ \A k \in DOMAIN stdout : stdout[k] \in NextLines => k > 1

\* for city in iter_1 has ended on a CityIterator after two or more items.
C9_Witness ==
    /\ loop.pc = "done"
    /\ heap[loop.target].cls = "CityIterator"
    /\ Len(loop.visited) >= 2
    /\ Count(stdout, NextLines) = Len(loop.visited) + 1

\* C10: a traversal of a Cities instance, which has both __iter__ and
\* __getitem__, runs on the CityIterator that __iter__ returned and never
\* calls __getitem__.
C10_IterPreferredOverGetItem ==
    (loop.pc # "idle"
       /\ heap[loop.target].cls = "Cities"
       /\ {"__iter__", "__getitem__"} \subseteq Methods(heap[loop.target].cls)) =>
        /\ loop.pc # "error"
        /\ heap[loop.it].cls = "CityIterator"
        /\ stdout[1] = "Calling Cities instance __iter__"
        /\ Count(stdout, {"getting item..."}) = 0

\* for city in cities has ended on a Cities instance of two or more names.
C10_Witness ==
    /\ loop.pc = "done"
    /\ heap[loop.target].cls = "Cities"
    /\ Len(loop.visited) >= 2
    /\ loop.visited = heap[loop.target]._cities
    /\ Count(stdout, {"getting item..."}) = 0

C12_RaisesBelowZero ==
    (ret.op = "getitem") =>
        LET list == heap[ret.self]._cities
        IN IF 0 <= ret.arg /\ ret.arg < Len(list)
           THEN ret.kind = "return" /\ ret.val = list[ret.arg + 1]
           ELSE ret.kind = "raise" /\ ret.val = "IndexError"

\* C12, amended: for an integer position s, cities[s] raises IndexError for
\* every s >= length and for every s < -length; it returns the element at s
\* for 0 <= s < length, and the element at length + s for -length <= s < 0.
C12_GetItemRange ==
    (ret.op = "getitem") =>
        LET list == heap[ret.self]._cities
            n == Len(list)
        IN /\ (ret.arg >= n \/ ret.arg < -n) =>
                (ret.kind = "raise" /\ ret.val = "IndexError")
           /\ (0 <= ret.arg /\ ret.arg < n) =>
                (ret.kind = "return" /\ ret.val = list[ret.arg + 1])
           /\ (-n <= ret.arg /\ ret.arg < 0) =>
                (ret.kind = "return" /\ ret.val = list[n + ret.arg + 1])

\* cities[-1] has returned the last of two or more different items.
C12_Witness ==
    /\ ret.op = "getitem"
    /\ ret.arg = -1
    /\ ret.kind = "return"
    /\ Len(heap[ret.self]._cities) >= 2
    /\ heap[ret.self]._cities[1] # ret.val

\* C13: the outcome of an advance is either a returned value or the raised
\* StopIteration, and the two are never confused, whatever the data holds.
\* An advance raises only StopIteration, and only when no element remains;
\* what it returns is the backing element the cursor has just passed.  A
\* traversal hands to the body exactly the backing elements its Producer
\* passed, an element that reads "StopIteration" included, and ends only on
\* the raised signal with the Producer used up.
C13_ExhaustedIsNoValue ==
    /\ \A p \in DOMAIN heap :
          (IsProducer(heap, p) /\ AdvanceOn(ret, p)) =>
              /\ ret.kind \in {"return", "raise"}
              /\ ret.kind = "raise" =>
                   (ret.val = "StopIteration" /\ Exhausted(heap, p))
              /\ ret.kind = "return" =>
                   /\ Cursor(heap, p) >= 1
                   /\ ret.val = Elements(heap, p)[Cursor(heap, p)]
    /\ (loop.pc \in {"next", "done"} /\ IsProducer(heap, loop.it)) =>
          /\ loop.visited = SubSeq(Elements(heap, loop.it), loop.start + 1,
                                   Cursor(heap, loop.it))
          /\ loop.pc = "done" =>
               (ret.kind = "raise" /\ Exhausted(heap, loop.it))

\* A finished traversal whose first item was the string "StopIteration" and
\* which went on to deliver a different second item.
C13_Witness ==
    /\ loop.pc = "done"
    /\ heap[loop.it].cls = "CityIterator"
    /\ Len(loop.visited) >= 2
    /\ loop.visited[1] = "StopIteration"
    /\ loop.visited[2] # "StopIteration"
    /\ ret.kind = "raise"

\* C14: over any sequence of calls (next, iter, len, indexing, traversals,
\* on this or any other object) the cursor of a Producer never decreases,
\* its length never changes, and a Producer whose cursor has reached its
\* length stays exhausted after every step.  Traversing again takes a new
\* Producer: no step moves an existing one back.
C14_CursorMonotonic ==
    [][\A p \in DOMAIN heap :
          IsProducer(heap, p) =>
              /\ IsProducer(heap', p)
              /\ Cursor(heap', p) >= Cursor(heap, p)
              /\ Length(heap', p) = Length(heap, p)
              /\ Exhausted(heap, p) => Exhausted(heap', p)]_vars

\* iter() was called on a CityIterator that had been advanced to the end of
\* two or more elements.
C14_Witness ==
    /\ ret.op = "iter"
    /\ heap[ret.self].cls = "CityIterator"
    /\ ret.val = ret.self
    /\ heap[ret.self]._index >= 2
    /\ Exhausted(heap, ret.self)

\* C15: no operation (next, iter on a Producer or on a Container, len,
\* indexing, constructing an iterator, a traversal) changes the list an
\* object holds or the number of elements it stands for: after every step
\* each object that holds data has the same list and the same size.
C15_BackingDataUnchanged ==
    [][\A o \in DOMAIN heap :
          heap[o].cls \notin {"CityIterator", "iterator", "Squares3"} =>
              /\ heap'[o].cls = heap[o].cls
              /\ Size(heap', o) = Size(heap, o)
              /\ "_cities" \in DOMAIN heap[o] =>
                   heap'[o]._cities = heap[o]._cities]_vars

\* len(cities) after two iterators of a Cities of two or more items have
\* both been advanced to the end.
C15_Witness ==
    /\ ret.op = "len"
    /\ heap[ret.self].cls = "Cities"
    /\ ret.val >= 2
    /\ Len(heap) = 3
    /\ heap[2]._index = ret.val
    /\ heap[3]._index = ret.val

\* C16: cities[s] depends only on s and on the list of the instance, not on
\* any iterator: its result is the one the same call gives in a session that
\* holds nothing but the instance; and the call changes no object, so no
\* Producer's cursor moves.
C16_GetItemIndependentOfProducers ==
    [][(ret'.op = "getitem") =>
          /\ heap' = heap
          /\ [kind |-> ret'.kind, val |-> ret'.val]
               = Cities__getitem__(<<heap[ret'.self]>>, 1, ret'.arg).res]_vars

\* cities[0] has returned the first item while one iterator of the instance
\* stands after its first item and another at the end of two or more.
C16_Witness ==
    /\ ret.op = "getitem"
    /\ ret.arg = 0
    /\ ret.kind = "return"
    /\ heap[ret.self].cls = "Cities"
    /\ Len(heap) = 3
    /\ heap[2]._index = 1
    /\ heap[3]._index = Len(heap[1]._cities)
    /\ heap[3]._index >= 2

\* C17: interleaved traversals.  With several CityIterators on one Cities
\* instance advanced in any order, an iterator changes only in a step that
\* is an advance on itself; and each advance on an iterator gives the result,
\* and leaves the cursor, that the same advance gives in a session holding
\* only the instance and that iterator.  So each iterator, taken alone, runs
\* through the whole list in order and then signals StopIteration.
C17_InterleavedTraversals ==
    [][\A p \in DOMAIN heap :
          heap[p].cls = "CityIterator" =>
              LET alone == next(<<heap[heap[p]._city_obj],
                                  [heap[p] EXCEPT !._city_obj = 1]>>, 2)
              IN /\ heap'[p] # heap[p] => AdvanceOn(ret', p)
                 /\ AdvanceOn(ret', p) =>
                      /\ [kind |-> ret'.kind, val |-> ret'.val] = alone.res
                      /\ heap'[p]._index = alone.heap[2]._index]_vars

\* Two iterators made by CityIterator(cities) on one list of two or more
\* items have both been advanced, the second one last, and stand at
\* different positions.
C17_Witness ==
    /\ Len(heap) = 3
    /\ heap[1].cls = "Cities5"
    /\ heap[2].cls = "CityIterator"
    /\ heap[3].cls = "CityIterator"
    /\ heap[2]._index = 2
    /\ heap[3]._index = 1
    /\ AdvanceOn(ret, 3)
    /\ ret.kind = "return"

\* C18: a traversal of an object whose class has neither __iter__ nor
\* __getitem__ fails with TypeError ("object is not iterable") at the iter()
\* call, also when the class has __next__ (or next_) and __len__: no iterator
\* is obtained, no method is called, nothing goes to the body, and the
\* failing step leaves every object, the cursor of the one given included,
\* as it was.
C18_NotIterable ==
    /\ []((loop.pc # "idle"
             /\ Methods(heap[loop.target].cls) \cap {"__iter__", "__getitem__"} = {}) =>
            /\ loop.pc = "error"
            /\ loop.it = 0
            /\ loop.visited = <<>>
            /\ stdout = <<>>
            /\ ret = [op |-> "iter", self |-> loop.target,
                      kind |-> "raise", val |-> "TypeError"])
    /\ [][(loop'.pc = "error") => heap' = heap]_vars

\* for i in sq has failed on a new Squares of two or more elements that has
\* __next__ and __len__ and no __iter__.
C18_Witness ==
    /\ loop.pc = "error"
    /\ heap[loop.target].cls = "Squares20"
    /\ {"__next__", "__len__"} \subseteq Methods(heap[loop.target].cls)
    /\ heap[loop.target].length >= 2
    /\ heap[loop.target].i = 0
    /\ ret.val = "TypeError"

\* C19: the step of a Producer.  An advance on a Producer whose cursor c is
\* below its length returns exactly the element at position c and sets the
\* cursor to c + 1; an advance on a Producer whose cursor is at or past its
\* length raises StopIteration and leaves the cursor where it is.
C19_ProducerStep ==
    [][\A p \in DOMAIN heap :
          (IsProducer(heap, p) /\ AdvanceOn(ret', p)) =>
              LET c == Cursor(heap, p)
              IN IF c < Length(heap, p)
                 THEN /\ ret'.kind = "return"
                      /\ ret'.val = Elements(heap, p)[c + 1]
                      /\ Cursor(heap', p) = c + 1
                 ELSE /\ SignalsExhausted(ret')
                      /\ Cursor(heap', p) = c]_vars

\* next(cities) on the Cities that is its own iterator has returned the
\* second of two different items.
C19_Witness ==
    /\ heap[1].cls = "Cities1"
    /\ AdvanceOn(ret, 1)
    /\ ret.kind = "return"
    /\ heap[1]._index = 2
    /\ ret.val = heap[1]._cities[2]
    /\ heap[1]._cities[1] # heap[1]._cities[2]

\* C20: a traversal of a new Producer of length n makes exactly n + 1
\* advances.  Every step of the traversal is one advance on its Producer: it
\* either returns a value, which goes to the body, or raises StopIteration,
\* which ends the traversal normally; a traversal that has ended takes no
\* further step.  So at most n values are delivered, the traversal ends
\* with the n elements delivered in order, and the trace of a tracing
\* Producer then shows n + 1 calls of __next__, the last one the only one
\* that raised.
C20_TraversalMakesNPlusOneAdvances ==
    /\ []((loop.pc \in {"next", "done"} /\ IsProducer(heap, loop.it)
             /\ loop.start = 0) =>
            LET n == Length(heap, loop.it)
                traced == heap[loop.it].cls \in TracingClasses
            IN /\ Len(loop.visited) <= n
               /\ (traced /\ loop.pc = "next") =>
                    Count(stdout, NextLines) = Len(loop.visited)
               /\ loop.pc = "done" =>
                    /\ Len(loop.visited) = n
                    /\ loop.visited = Elements(heap, loop.it)
                    /\ traced => Count(stdout, NextLines) = n + 1)
    /\ [][(loop.pc = "next" /\ IsProducer(heap, loop.it)) =>
            /\ AdvanceOn(ret', loop.it)
            /\ \/ /\ ret'.kind = "return"
                  /\ loop' = [loop EXCEPT !.visited = Append(@, ret'.val)]
               \/ /\ SignalsExhausted(ret')
                  /\ loop' = [loop EXCEPT !.pc = "done"]]_vars
    /\ [][(loop.pc = "done") => (loop'.pc # "done")]_vars

\* for i in sq on a new tracing Squares of two or more elements has ended:
\* the trace shows one more __next__ than items.
C20_Witness ==
    /\ loop.pc = "done"
    /\ heap[loop.it].cls = "Squares"
    /\ loop.start = 0
    /\ heap[loop.it].length >= 2
    /\ Count(stdout, NextLines) = heap[loop.it].length + 1

\* C21: a traversal given a Producer that has already been advanced k times
\* runs on that very Producer, from where it stands: iter() leaves every
\* object as it was and the traversal starts at cursor k; the items handed to
\* the body are the elements from position k on, in order, none of the first
\* k among them; and it ends with exactly the elements k .. n-1 delivered.
C21_TraversalContinues ==
    /\ []((loop.pc \in {"next", "done"} /\ IsProducer(heap, loop.target)) =>
            LET all == Elements(heap, loop.target)
                n == Length(heap, loop.target)
            IN /\ loop.it = loop.target
               /\ loop.start <= n
               /\ Len(loop.visited) <= n - loop.start
               /\ \A j \in 1..Len(loop.visited) :
                     loop.visited[j] = all[loop.start + j]
               /\ loop.pc = "done" => Len(loop.visited) = n - loop.start)
    /\ [][(loop.pc # "next" /\ loop'.pc = "next"
             /\ IsProducer(heap, loop'.target)) =>
            /\ heap' = heap
            /\ loop'.start = Cursor(heap, loop'.target)]_vars

\* for city in iter_1 has ended on a CityIterator that had been advanced once
\* before: it delivered the second item and at least one more.
C21_Witness ==
    /\ loop.pc = "done"
    /\ loop.target = loop.it
    /\ heap[loop.it].cls = "CityIterator"
    /\ loop.start = 1
    /\ Len(loop.visited) >= 2
    /\ loop.visited[1] = Elements(heap, loop.it)[2]
    /\ loop.visited[1] # Elements(heap, loop.it)[1]

\* C22: termination.  A traversal that has obtained a Producer, standing at
\* any cursor, ends: the advances of the loop reach, after finitely many
\* turns, the one that raises StopIteration, and the statement is then done
\* with the Producer used up.
C22_TraversalTerminates ==
    (loop.pc = "next" /\ IsProducer(heap, loop.it))
        ~> (loop.pc = "done" /\ IsProducer(heap, loop.it)
              /\ Exhausted(heap, loop.it))

\* A traversal of a Squares of two or more elements, begun at a cursor that
\* was neither at the start nor at the end, has ended.
C22_Witness ==
    /\ loop.pc = "done"
    /\ heap[loop.it].cls = "Squares"
    /\ loop.start >= 1
    /\ Len(loop.visited) >= 1
    /\ Exhausted(heap, loop.it)

\* The three classes Squares(length) of part-1 that stop at length.
BoundedSquares == {"Squares10", "Squares20", "Squares"}

\* C23: the values of a bounded Squares(length).  The counter i of the object
\* counts its successful advances: it starts at 0, a successful advance moves
\* it up by exactly one and nothing else moves it.  The k-th successful
\* advance, 1 <= k <= length, returns (k-1)^2, and an advance that signals
\* Exhausted finds k = length.  A traversal begun on a fresh Squares delivers
\* 0, 1, 4, ..., (length-1)^2 in that order and then ends.
C23_SquaresValues ==
    /\ [](\A p \in DOMAIN heap :
            heap[p].cls \in BoundedSquares =>
              LET k == heap[p].i
              IN /\ (ret.op = "init" /\ ret.self = p) => k = 0
                 /\ (AdvanceOn(ret, p) /\ ret.kind = "return") =>
                        /\ 1 <= k /\ k <= heap[p].length
                        /\ ret.val = (k - 1) * (k - 1)
                 /\ (AdvanceOn(ret, p) /\ ret.kind = "raise") =>
                        /\ SignalsExhausted(ret)
                        /\ k = heap[p].length)
    /\ []((loop.pc \in {"next", "done"}
             /\ heap[loop.it].cls \in BoundedSquares /\ loop.start = 0) =>
            /\ Len(loop.visited) <= heap[loop.it].length
            /\ \A k \in 1..Len(loop.visited) :
                  loop.visited[k] = (k - 1) * (k - 1)
            /\ loop.pc = "done" => Len(loop.visited) = heap[loop.it].length)
    /\ [][\A p \in DOMAIN heap :
            heap[p].cls \in BoundedSquares =>
              heap'[p].i = IF AdvanceOn(ret', p) /\ ret'.kind = "return"
                           THEN heap[p].i + 1
                           ELSE heap[p].i]_vars

\* for item in sq over a fresh Squares(3) has ended after 0, 1, 4, and the
\* advance that ended it signalled Exhausted.
C23_Witness ==
    /\ loop.pc = "done"
    /\ heap[loop.it].cls = "Squares"
    /\ loop.start = 0
    /\ loop.visited = <<0, 1, 4>>
    /\ AdvanceOn(ret, loop.it)
    /\ SignalsExhausted(ret)

\* C24: the Squares without a length.  Its counter i starts at 0 and counts
\* the calls of next_: every call returns, none raises StopIteration or
\* anything else, the k-th call returns (k-1)^2 and moves i up by exactly
\* one, and nothing else moves i.
C24_UnboundedSquares ==
    /\ [](\A p \in DOMAIN heap :
            heap[p].cls = "Squares3" =>
              LET k == heap[p].i
              IN /\ (ret.op = "init" /\ ret.self = p) => k = 0
                 /\ AdvanceOn(ret, p) =>
                        /\ ret.kind = "return"
                        /\ k >= 1
                        /\ ret.val = (k - 1) * (k - 1))
    /\ [][\A p \in DOMAIN heap :
            heap[p].cls = "Squares3" =>
              heap'[p].i = IF AdvanceOn(ret', p)
                           THEN heap[p].i + 1
                           ELSE heap[p].i]_vars

\* The fourth call of sq.next_() has returned 9.
C24_Witness ==
    /\ heap[1].cls = "Squares3"
    /\ AdvanceOn(ret, 1)
    /\ ret.kind = "return"
    /\ ret.val = 9
    /\ heap[1].i = 4

\* RandomNumbers objects, and those whose range holds at least one value.
IsRandomNumbers(h, p) == h[p].cls = "RandomNumbers"

HasValues(h, p) == h[p].range_min <= h[p].range_max

\* The count of the RandomNumbers p: num_requested is 0 after construction
\* and never more than length.
CountWithinLength(p) ==
    /\ heap[p].num_requested <= heap[p].length
    /\ (ret.op = "init" /\ ret.self = p) => heap[p].num_requested = 0

\* A step, seen from the RandomNumbers p: an advance made while fewer than
\* length values have been returned returns a value within
\* [range_min, range_max] and counts it; an advance made after that signals
\* Exhausted and changes nothing; no other step moves the count.  With the
\* count starting at 0, the advances before the first Exhausted return
\* exactly length values.
DeliversStep(p) ==
    IF AdvanceOn(ret', p)
    THEN IF heap[p].num_requested < heap[p].length
         THEN /\ ret'.kind = "return"
              /\ heap[p].range_min <= ret'.val
              /\ ret'.val <= heap[p].range_max
              /\ heap'[p].num_requested = heap[p].num_requested + 1
         ELSE /\ SignalsExhausted(ret')
              /\ heap' = heap
    ELSE heap'[p].num_requested = heap[p].num_requested

\* C25 as claimed: every RandomNumbers(length, range_min, range_max) returns
\* exactly length values before it signals Exhausted, each within
\* [range_min, range_max], and num_requested never exceeds length.
C25_RandomNumbersAnyRange ==
    /\ [](\A p \in DOMAIN heap :
            IsRandomNumbers(heap, p) => CountWithinLength(p))
    /\ [][\A p \in DOMAIN heap :
            IsRandomNumbers(heap, p) => DeliversStep(p)]_vars

\* C25, amended: a RandomNumbers(length, range_min, range_max) with
\* range_min <= range_max returns exactly length values before it signals
\* Exhausted, each within [range_min, range_max], and num_requested never
\* exceeds length.
C25_RandomNumbersInRange ==
    /\ [](\A p \in DOMAIN heap :
            (IsRandomNumbers(heap, p) /\ HasValues(heap, p)) =>
                CountWithinLength(p))
    /\ [][\A p \in DOMAIN heap :
            (IsRandomNumbers(heap, p) /\ HasValues(heap, p)) =>
                DeliversStep(p)]_vars

\* numbers = RandomNumbers(3, range_min=0, range_max=1) has returned its
\* third value, a 1, and the call after that has signalled Exhausted.
C25_Witness ==
    /\ heap[1].cls = "RandomNumbers"
    /\ heap[1].length = 3
    /\ heap[1].range_min = 0
    /\ heap[1].range_max = 1
    /\ heap[1].num_requested = 3
    /\ AdvanceOn(ret, 1)
    /\ SignalsExhausted(ret)

\* C26: the cursor stays within bounds.  In every reachable state the cursor
\* of every Producer is at least 0 and at most the length of what it runs
\* over (Squares.i within 0..length, _index within 0..len of the list), also
\* after advances made on an exhausted Producer.
C26_CursorWithinBounds ==
    \A p \in DOMAIN heap :
        IsProducer(heap, p) =>
            /\ 0 <= Cursor(heap, p)
            /\ Cursor(heap, p) <= Length(heap, p)

\* A CityIterator standing at the end of three cities was advanced: the call
\* signalled Exhausted and the cursor is still 3.
C26_Witness ==
    \E p \in DOMAIN heap :
        /\ heap[p].cls = "CityIterator"
        /\ AdvanceOn(ret, p)
        /\ SignalsExhausted(ret)
        /\ Length(heap, p) = 3
        /\ Cursor(heap, p) = 3

\* C27: an advance that signals Exhausted changes nothing.  A step in which
\* advance() on a Producer raises StopIteration leaves every object as it
\* was: that Producer's cursor, the cursor of every other Producer, and the
\* Container with its list.
C27_ExhaustedAdvanceIsNoOp ==
    [][\A p \in DOMAIN heap :
          (IsProducer(heap, p) /\ AdvanceOn(ret', p) /\ SignalsExhausted(ret'))
              => /\ heap' = heap
                 /\ Cursor(heap', p) = Cursor(heap, p)
                 /\ \A q \in DOMAIN heap :
                       IsProducer(heap, q) => Cursor(heap', q) = Cursor(heap, q)]_vars

\* Two CityIterators over the same two or more cities: one has just signalled
\* Exhausted while the other stands after its first city.
C27_Witness ==
    \E p, q \in DOMAIN heap :
        /\ p # q
        /\ heap[p].cls = "CityIterator"
        /\ heap[q].cls = "CityIterator"
        /\ heap[p]._city_obj = heap[q]._city_obj
        /\ AdvanceOn(ret, p)
        /\ SignalsExhausted(ret)
        /\ Cursor(heap, q) = 1
        /\ Length(heap, p) >= 2

\* The classes with __len__ whose instances hold or produce elements.
HasLen(h, o) == "__len__" \in Methods(h[o].cls)

\* C28: len() reports the total count.  Whenever len(o) is called, on a
\* Squares with next_ and __len__ at any cursor or on a Cities with any
\* number of CityIterators at any cursors, it returns the number of elements
\* of o, the count at which an advance signals Exhausted, and not what is
\* left of it; the call changes no object, and no step, advances and
\* exhaustion included, changes what len(o) returns.
C28_LenIsTotalCount ==
    /\ [](\A o \in DOMAIN heap :
            /\ (HasLen(heap, o) /\ ret.op = "len" /\ ret.self = o) =>
                  /\ ret.kind = "return"
                  /\ ret.val = Size(heap, o)
            /\ (HasLen(heap, o) /\ IsProducer(heap, o)
                  /\ AdvanceOn(ret, o) /\ SignalsExhausted(ret)) =>
                  Cursor(heap, o) = len(heap, o).res.val
            /\ (heap[o].cls = "CityIterator"
                  /\ AdvanceOn(ret, o) /\ SignalsExhausted(ret)) =>
                  Cursor(heap, o) = len(heap, heap[o]._city_obj).res.val)
    /\ [][\A o \in DOMAIN heap :
            HasLen(heap, o) =>
              /\ len(heap', o).res = len(heap, o).res
              /\ (ret'.op = "len" /\ ret'.self = o) => heap' = heap]_vars

\* len(sq) on a Squares(3) that has delivered all three squares: it is 3.
C28_Witness ==
    /\ heap[1].cls = "Squares10"
    /\ ret.op = "len"
    /\ ret.self = 1
    /\ ret.val = 3
    /\ heap[1].i = 3

\* The k-th of k calls next(p), k >= 1, made one after the other from h.
RECURSIVE NthNext(_, _, _)
NthNext(h, p, k) ==
    IF k = 1 THEN next(h, p) ELSE NthNext(next(h, p).heap, p, k - 1)

\* The k-th value a new iterator of c gives: next(it) for the k-th time after
\* it = iter(c).
NthOfFresh(h, c, k) ==
    LET made == iter(h, c)
    IN NthNext(made.heap, made.res.val, k).res

\* C29: positional access and production agree.  In every reachable state,
\* whatever iterators are alive and wherever they stand, for every Cities c
\* that has both __getitem__ and __iter__ and every position i with
\* 0 <= i < len(c): c[i] returns the value that a new iterator of c returns
\* from its (i+1)-th advance.  The calls a session makes show the same: a
\* value c[i] has returned is that value, and the k-th value an iterator of c
\* has returned, in a cell or in a for statement, is c[k-1].
C29_GetItemAgreesWithProducer ==
    \A c \in DOMAIN heap :
        heap[c].cls = "Cities" =>
            /\ \A i \in 0..(len(heap, c).res.val - 1) :
                  /\ Cities__getitem__(heap, c, i).res.kind = "return"
                  /\ Cities__getitem__(heap, c, i).res
                        = NthOfFresh(heap, c, i + 1)
            /\ (ret.op = "getitem" /\ ret.self = c /\ ret.kind = "return"
                  /\ ret.arg >= 0) =>
                  ret.val = NthOfFresh(heap, c, ret.arg + 1).val
            /\ \A p \in DOMAIN heap :
                  (heap[p].cls = "CityIterator" /\ heap[p]._city_obj = c
                     /\ AdvanceOn(ret, p) /\ ret.kind = "return") =>
                      ret.val = Cities__getitem__(heap, c, heap[p]._index - 1).res.val
            /\ (loop.pc \in {"next", "done"} /\ loop.target = c) =>
                  /\ \A k \in 1..Len(loop.visited) :
                        loop.visited[k] = Cities__getitem__(heap, c, k - 1).res.val
                  /\ loop.pc = "done" =>
                        Len(loop.visited) = len(heap, c).res.val

\* cities[1] has returned the second of three cities, which is not the first,
\* while an iterator over the same cities stands after the first.
C29_Witness ==
    /\ heap[1].cls = "Cities"
    /\ Len(heap[1]._cities) = 3
    /\ heap[1]._cities[1] # heap[1]._cities[2]
    /\ ret.op = "getitem"
    /\ ret.self = 1
    /\ ret.arg = 1
    /\ ret.val = heap[1]._cities[2]
    /\ \E p \in DOMAIN heap :
          heap[p].cls = "CityIterator" /\ heap[p]._index = 1

\* The two designs of part-3 right after construction over the list data:
\* cities = Cities() of the first class, which is its own iterator (object
\* 1), and cities = Cities(); iter_1 = CityIterator(cities) of the split
\* design (iter_1 is object 2).
SelfContained(data) == <<Cities1__init__(data)>>

Split(data) == <<Cities__init__("Cities5", data), CityIterator__init__(1)>>

\* C30: the self-contained Cities and the split design behave alike.  Over
\* the same list, for every k, the k-th of k advances returns the same value
\* or signals Exhausted alike in both designs, up to two calls beyond the end
\* of the list.  The calls a session makes show the same: a value an object
\* of one design has returned as its j-th is the j-th the other design
\* returns, an object of one design signals Exhausted where the other design
\* does after as many values, and a for statement over one design delivers
\* what the advances of the other return.
C30_DesignsEquivalent ==
    \A o \in DOMAIN heap :
        /\ heap[o].cls \in {"Cities1", "Cities5"} =>
              \A k \in 1..(Len(heap[o]._cities) + 2) :
                  LET one == NthNext(SelfContained(heap[o]._cities), 1, k)
                      two == NthNext(Split(heap[o]._cities), 2, k)
                  IN /\ one.res = two.res
                     /\ one.heap[1]._index = two.heap[2]._index
        /\ (heap[o].cls \in {"Cities1", "CityIterator"} /\ AdvanceOn(ret, o)) =>
              LET data == Elements(heap, o)
                  j == IF ret.kind = "return" THEN Cursor(heap, o)
                       ELSE Len(data) + 1
                  other == IF heap[o].cls = "Cities1"
                           THEN NthNext(Split(data), 2, j)
                           ELSE NthNext(SelfContained(data), 1, j)
              IN /\ ret.kind = other.res.kind
                 /\ ret.val = other.res.val
        /\ (loop.pc = "done" /\ loop.it = o /\ loop.start = 0
              /\ heap[o].cls \in {"Cities1", "CityIterator"}) =>
              LET data == Elements(heap, o)
                  other(j) == IF heap[o].cls = "Cities1"
                              THEN NthNext(Split(data), 2, j)
                              ELSE NthNext(SelfContained(data), 1, j)
              IN /\ \A j \in 1..Len(loop.visited) :
                       other(j).res = Return(loop.visited[j])
                 /\ other(Len(loop.visited) + 1).res = Raise("StopIteration")

\* The self-contained Cities over two different cities has given both and has
\* then signalled Exhausted.
C30_Witness ==
    /\ heap[1].cls = "Cities1"
    /\ Len(heap[1]._cities) = 2
    /\ heap[1]._cities[1] # heap[1]._cities[2]
    /\ heap[1]._index = 2
    /\ AdvanceOn(ret, 1)
    /\ SignalsExhausted(ret)

====
